---- MODULE Spec2Model ----
(***************************************************************************)
(* A model of check_tv_compat.c: the stream/container classifiers, the     *)
(* per-file analyzer check_file with its remux/transcode command           *)
(* synthesis, shell_escape_single, and the traversal that calls check_file *)
(* once per regular file while accumulating the Summary counters.          *)
(*                                                                         *)
(* C strings are sequences of one-character strings.  Codec identifiers,   *)
(* codec tags (MKTAG fourCCs) and profiles are the names of the FFmpeg     *)
(* enumerators.  Commands are kept as token sequences instead of bytes.    *)
(***************************************************************************)
EXTENDS Integers, Sequences, FiniteSets, TLC

\* ------------------------------------------------------------------ bounds

\* Longest stream list a probed file carries in the model.
MaxStreams == 2
\* Number of directory entries one traversal visits.
MaxEntries == 2
\* Longest input string given to shell_escape_single on its own.
MaxPathLen == 3

\* ------------------------------------------------------------ C strings

Min(a, b) == IF a < b THEN a ELSE b

QUOTE == "'"
BACKSLASH == "\\"

\* strrchr: the index of the last occurrence of c in s, 0 when absent.
StrRChr(s, c) ==
    IF \E i \in 1..Len(s) : s[i] = c
    THEN CHOOSE i \in 1..Len(s) : s[i] = c /\ \A k \in (i+1)..Len(s) : s[k] # c
    ELSE 0

\* The string from index i (1-based) to the end.
Suffix(s, i) == SubSeq(s, i, Len(s))

\* strstr(hay, needle) != NULL
StrStr(hay, needle) ==
    \E i \in 0..(Len(hay) - Len(needle)) :
        \A k \in 1..Len(needle) : hay[i + k] = needle[k]

UpperCase == <<"A","B","C","D","E","F","G","H","I","J","K","L","M",
               "N","O","P","Q","R","S","T","U","V","W","X","Y","Z">>
LowerCase == <<"a","b","c","d","e","f","g","h","i","j","k","l","m",
               "n","o","p","q","r","s","t","u","v","w","x","y","z">>

LowerOf == [c \in {UpperCase[i] : i \in 1..Len(UpperCase)} |->
               LowerCase[CHOOSE i \in 1..Len(UpperCase) : UpperCase[i] = c]]

\* tolower, as strcasecmp applies it to each character.
ToLower(c) == IF c \in DOMAIN LowerOf THEN LowerOf[c] ELSE c

\* strcasecmp(a, b) == 0
StrCaseEq(a, b) ==
    /\ Len(a) = Len(b)
    /\ \A i \in 1..Len(a) : ToLower(a[i]) = ToLower(b[i])

\* snprintf(buf, size, ...): at most size - 1 characters are stored.
Truncate(s, size) == SubSeq(s, 1, Min(Len(s), size - 1))

PATH_BUF_SIZE == 4096

\* ------------------------------------------------------------ classifiers

is_video_codec_supported_notag(par) ==
    LET id == par.codec_id IN
    \/ id = "H264"
    \/ id = "HEVC"
    \/ id = "MPEG2VIDEO"
    \/ id = "VP9"
    \/ id = "AV1"
    \/ id = "MJPEG"
    \/ id = "PNG"
    \/ /\ id = "MPEG4"
       /\ par.codec_tag # "XVID"
       /\ par.codec_tag # "xvid"
       /\ par.codec_tag # "DIVX"
       /\ par.codec_tag # "DX50"
       /\ par.codec_tag # "MP4V"
       /\ par.codec_tag # "mp4v"
       /\ par.codec_tag # "FMP4"
       /\ par.codec_tag # "fmp4"
       /\ ~(par.profile = "MPEG4_ADVANCED_SIMPLE" \/ par.profile = "MPEG4_SIMPLE_STUDIO")

is_video_codec_supported(par) ==
    LET id == par.codec_id IN
    \/ id = "H264"
    \/ id = "HEVC"
    \/ id = "MPEG2VIDEO"
    \/ id = "VP9"
    \/ id = "AV1"
    \/ id = "MJPEG"
    \/ id = "PNG"
    \/ /\ id = "MPEG4"
       /\ par.codec_tag # "XVID"
       /\ par.codec_tag # "xvid"
       /\ par.codec_tag # "DIVX"
       /\ par.codec_tag # "divx"
       /\ par.codec_tag # "DX50"
       /\ par.codec_tag # "MP4V"
       /\ par.codec_tag # "mp4v"
       /\ par.codec_tag # "FMP4"
       /\ par.codec_tag # "fmp4"
       /\ ~(par.profile = "MPEG4_ADVANCED_SIMPLE" \/ par.profile = "MPEG4_SIMPLE_STUDIO")

is_audio_codec_supported(id) ==
    id \in {"AAC", "AC3", "EAC3", "MP3", "PCM_S16LE", "FLAC", "VORBIS", "OPUS", "WMAV2"}

ContainerNames ==
    << <<"m","a","t","r","o","s","k","a">>,
       <<"m","p","4">>,
       <<"m","o","v">>,
       <<"m","p","e","g","t","s">>,
       <<"w","e","b","m">>,
       <<"a","v","i">>,
       <<"a","s","f">>,
       <<"w","a","v">>,
       <<"f","l","a","c">>,
       <<"m","p","3">>,
       <<"o","g","g">>,
       <<"w","m","v">> >>

\* format_name is never NULL where check_file calls this ("unknown" stands in).
is_container_supported(format_name) ==
    \E n \in 1..Len(ContainerNames) : StrStr(format_name, ContainerNames[n])

is_subtitle_codec_supported(id) ==
    id \in {"SUBRIP", "ASS", "SSA", "WEBVTT", "MOV_TEXT", "MICRODVD", "TEXT"}

is_text_subtitle(id) ==
    id \in {"SUBRIP", "ASS", "SSA", "WEBVTT", "MOV_TEXT", "MICRODVD", "TEXT"}

is_bitmap_subtitle(id) ==
    id \in {"HDMV_PGS_SUBTITLE", "DVD_SUBTITLE"}

Extensions ==
    << <<".","m","k","v">>, <<".","m","p","4">>, <<".","m","o","v">>,
       <<".","w","e","b","m">>, <<".","a","v","i">> >>

has_supported_extension(filename) ==
    LET dot == StrRChr(filename, ".") IN
    IF dot = 0 THEN FALSE
    ELSE \E i \in 1..Len(Extensions) : StrCaseEq(Suffix(filename, dot), Extensions[i])

get_basename(path) ==
    LET slash == StrRChr(path, "/") IN
    IF slash # 0 THEN Suffix(path, slash + 1) ELSE path

is_media_stream(type) ==
    type = "VIDEO" \/ type = "AUDIO" \/ type = "SUBTITLE"

\* ------------------------------------------------------ shell_escape_single

RECURSIVE EscapeChars_noclose(_)
EscapeChars_noclose(input) ==
    IF input = <<>> THEN <<>>
    ELSE IF Head(input) = QUOTE
         THEN <<BACKSLASH, QUOTE>> \o EscapeChars_noclose(Tail(input))
         ELSE <<Head(input)>> \o EscapeChars_noclose(Tail(input))

\* The loop body over *input: a quote becomes the four characters '\''.
RECURSIVE EscapeChars(_)
EscapeChars(input) ==
    IF input = <<>> THEN <<>>
    ELSE IF Head(input) = QUOTE
         THEN <<QUOTE, BACKSLASH, QUOTE, QUOTE>> \o EscapeChars(Tail(input))
         ELSE <<Head(input)>> \o EscapeChars(Tail(input))

shell_escape_single(input) == <<QUOTE>> \o EscapeChars(input) \o <<QUOTE>>

\* ------------------------------------------------------------ the prober

\* What avformat_open_input / avformat_find_stream_info report for a path:
\* probe is "open_fail", "info_fail" or "ok"; an opened file has a container
\* name (absent when iformat or its name is NULL) and an ordered stream list.
Stream(type, id, tag, profile) ==
    [codec_type |-> type, codec_id |-> id, codec_tag |-> tag, profile |-> profile]

V_H264  == Stream("VIDEO", "H264", "avc1", "H264_HIGH")
V_XVID  == Stream("VIDEO", "MPEG4", "XVID", "MPEG4_SIMPLE")
A_AAC   == Stream("AUDIO", "AAC", "NONE", "UNKNOWN")
A_DTS   == Stream("AUDIO", "DTS", "NONE", "UNKNOWN")
S_SRT   == Stream("SUBTITLE", "SUBRIP", "NONE", "UNKNOWN")
S_PGS   == Stream("SUBTITLE", "HDMV_PGS_SUBTITLE", "NONE", "UNKNOWN")
S_DVB   == Stream("SUBTITLE", "DVB_SUBTITLE", "NONE", "UNKNOWN")
D_DATA  == Stream("DATA", "BIN_DATA", "NONE", "UNKNOWN")

StreamUniverse == {V_H264, V_XVID, A_AAC, A_DTS, S_SRT, S_PGS, S_DVB, D_DATA}

StreamLists == UNION {[1..n -> StreamUniverse] : n \in 0..MaxStreams}

Name_avi == <<"a","v","i">>
Name_flv == <<"f","l","v">>
Name_unknown == <<"u","n","k","n","o","w","n">>

\* "d/it's.AVI": a directory part, a single quote, an upper-case extension.
Path_quoted == <<"d","/","i","t","'","s",".","A","V","I">>
Path_plain  == <<"a",".","m","k","v">>
Path_text   == <<"n",".","t","x","t">>
Path_noext  == <<"R","E","A","D","M","E">>

File(path, probe, has_iformat, name, streams) ==
    [path |-> path, probe |-> probe, has_iformat |-> has_iformat,
     iformat_name |-> name, streams |-> streams]

Files ==
    {File(p, "ok", TRUE, n, s) : p \in {Path_quoted}, n \in {Name_avi, Name_flv}, s \in StreamLists}
    \cup {File(Path_plain, "ok", FALSE, <<>>, s) : s \in {<<V_H264, A_AAC>>, <<V_XVID>>}}
    \cup {File(p, pr, FALSE, <<>>, <<>>) : p \in {Path_quoted, Path_plain}, pr \in {"open_fail", "info_fail"}}
    \cup {File(p, "ok", TRUE, Name_avi, <<V_H264>>) : p \in {Path_text, Path_noext}}

\* ------------------------------------------------------------------ Summary

ZeroSummary == [total |-> 0, ok |-> 0, not_supported |-> 0, errors |-> 0]

\* ------------------------------------------------------------- check_file

\* supported, as each loop of check_file computes it for a media stream.
StreamSupported(par) ==
    IF par.codec_type = "VIDEO" THEN is_video_codec_supported(par)
    ELSE IF par.codec_type = "AUDIO" THEN is_audio_codec_supported(par.codec_id)
    ELSE IF par.codec_type = "SUBTITLE" THEN is_subtitle_codec_supported(par.codec_id)
    ELSE TRUE

TypeName(par) ==
    IF par.codec_type = "VIDEO" THEN "video"
    ELSE IF par.codec_type = "AUDIO" THEN "audio"
    ELSE "subtitle"

FirstPassInit(container_ok) ==
    [all_supported |-> container_ok, has_video |-> FALSE, has_audio |-> FALSE,
     can_transcode |-> FALSE, has_unsupported_bitmap_subtitle |-> FALSE]

FirstPassBody_bitmapTranscodes(acc, par) ==
    IF ~is_media_stream(par.codec_type) THEN acc
    ELSE LET supported == StreamSupported(par) IN
         [all_supported |-> acc.all_supported /\ supported,
          has_video |-> acc.has_video \/ par.codec_type = "VIDEO",
          has_audio |-> acc.has_audio \/ par.codec_type = "AUDIO",
          can_transcode |-> acc.can_transcode \/ ~supported,
          has_unsupported_bitmap_subtitle |->
              \/ acc.has_unsupported_bitmap_subtitle
              \/ (par.codec_type = "SUBTITLE" /\ ~supported /\ is_bitmap_subtitle(par.codec_id))]

FirstPassBody_lastWins(acc, par) ==
    IF ~is_media_stream(par.codec_type) THEN acc
    ELSE LET supported == StreamSupported(par) IN
         [all_supported |-> supported,
          has_video |-> acc.has_video \/ par.codec_type = "VIDEO",
          has_audio |-> acc.has_audio \/ par.codec_type = "AUDIO",
          can_transcode |->
              \/ acc.can_transcode
              \/ (par.codec_type \in {"VIDEO", "AUDIO"} /\ ~supported)
              \/ (par.codec_type = "SUBTITLE" /\ ~supported /\ ~is_bitmap_subtitle(par.codec_id)),
          has_unsupported_bitmap_subtitle |->
              \/ acc.has_unsupported_bitmap_subtitle
              \/ (par.codec_type = "SUBTITLE" /\ ~supported /\ is_bitmap_subtitle(par.codec_id))]

\* One iteration of the first pass over the streams.
FirstPassBody(acc, par) ==
    IF ~is_media_stream(par.codec_type) THEN acc
    ELSE LET supported == StreamSupported(par) IN
         [all_supported |-> acc.all_supported /\ supported,
          has_video |-> acc.has_video \/ par.codec_type = "VIDEO",
          has_audio |-> acc.has_audio \/ par.codec_type = "AUDIO",
          can_transcode |->
              \/ acc.can_transcode
              \/ (par.codec_type \in {"VIDEO", "AUDIO"} /\ ~supported)
              \/ (par.codec_type = "SUBTITLE" /\ ~supported /\ ~is_bitmap_subtitle(par.codec_id)),
          has_unsupported_bitmap_subtitle |->
              \/ acc.has_unsupported_bitmap_subtitle
              \/ (par.codec_type = "SUBTITLE" /\ ~supported /\ is_bitmap_subtitle(par.codec_id))]

RECURSIVE FirstPass(_, _, _)
FirstPass(streams, i, acc) ==
    IF i > Len(streams) THEN acc
    ELSE FirstPass(streams, i + 1, FirstPassBody(acc, streams[i]))

\* The per-stream lines of the verbose report; idx is the 0-based stream index.
RECURSIVE ReportLines(_, _)
ReportLines(streams, i) ==
    IF i > Len(streams) THEN <<>>
    ELSE LET par == streams[i] IN
         IF ~is_media_stream(par.codec_type) THEN ReportLines(streams, i + 1)
         ELSE LET supported == StreamSupported(par) IN
              << [idx |-> i - 1, type |-> TypeName(par), codec |-> par.codec_id,
                  supported |-> supported,
                  bitmap_note |-> (~supported /\ par.codec_type = "SUBTITLE"
                                    /\ is_bitmap_subtitle(par.codec_id))] >>
              \o ReportLines(streams, i + 1)

\* The tags of the brief line; the container tag carries idx -1.
RECURSIVE BriefTags(_, _)
BriefTags(streams, i) ==
    IF i > Len(streams) THEN <<>>
    ELSE LET par == streams[i] IN
         IF ~is_media_stream(par.codec_type) THEN BriefTags(streams, i + 1)
         ELSE << [idx |-> i - 1, type |-> TypeName(par), codec |-> par.codec_id,
                  supported |-> StreamSupported(par)] >>
              \o BriefTags(streams, i + 1)

BriefHasUnsupported(container_ok, streams) ==
    \/ ~container_ok
    \/ \E i \in 1..Len(streams) :
          is_media_stream(streams[i].codec_type) /\ ~StreamSupported(streams[i])

\* --------------------------------------------------- command synthesis

Str_remuxed == <<"r","e","m","u","x","e","d","_">>
Str_fixed   == <<"f","i","x","e","d","_">>
Str_mkv     == <<".","m","k","v">>

\* One argument pair of the ffmpeg command line: "-map 0:<t>" (idx is the
\* input file number 0, codec empty) or "-c:<t>:<idx> <codec>".
MapArg(t) == [opt |-> "-map", t |-> t, idx |-> 0, codec |-> ""]
CodecArg(t, j, codec) == [opt |-> "-c", t |-> t, idx |-> j, codec |-> codec]

\* "ffmpeg -i <in> -map 0 -c copy <out>" with out = remuxed_<basename>.mkv
RemuxCmd(filepath) ==
    LET remuxed_basename ==
            Truncate(Str_remuxed \o get_basename(filepath) \o Str_mkv, PATH_BUF_SIZE)
    IN [input |-> shell_escape_single(filepath),
        output |-> shell_escape_single(remuxed_basename)]

FixedBasename(filepath) ==
    LET base == get_basename(filepath)
        dot == StrRChr(base, ".")
    IN IF dot # 0
       THEN Truncate(Str_fixed \o SubSeq(base, 1, dot - 1) \o Str_mkv, PATH_BUF_SIZE)
       ELSE Truncate(Str_fixed \o base \o Str_mkv, PATH_BUF_SIZE)

TranscodeInit ==
    [maps |-> <<>>, v_opts |-> <<>>, a_opts |-> <<>>, s_opts |-> <<>>,
     v_cnt |-> 0, a_cnt |-> 0, s_cnt |-> 0,
     had_video |-> FALSE, had_audio |-> FALSE, had_sub |-> FALSE]

TranscodeBody_sharedCounter(acc, par) ==
    LET supported == StreamSupported(par)
        n == acc.v_cnt + acc.a_cnt + acc.s_cnt
    IN
    IF ~is_media_stream(par.codec_type) THEN acc
    ELSE IF par.codec_type = "VIDEO" THEN
        [acc EXCEPT !.maps = IF acc.had_video THEN @ ELSE Append(@, MapArg("v")),
                    !.had_video = TRUE,
                    !.v_opts = Append(@, CodecArg("v", n, IF supported THEN "copy" ELSE "libx264")),
                    !.v_cnt = @ + 1]
    ELSE IF par.codec_type = "AUDIO" THEN
        [acc EXCEPT !.maps = IF acc.had_audio THEN @ ELSE Append(@, MapArg("a")),
                    !.had_audio = TRUE,
                    !.a_opts = Append(@, CodecArg("a", n, IF supported THEN "copy" ELSE "aac")),
                    !.a_cnt = @ + 1]
    ELSE
        [acc EXCEPT !.maps = IF acc.had_sub THEN @ ELSE Append(@, MapArg("s")),
                    !.had_sub = TRUE,
                    !.s_opts = Append(@, CodecArg("s", n,
                                   IF ~supported /\ is_text_subtitle(par.codec_id)
                                   THEN "srt" ELSE "copy")),
                    !.s_cnt = @ + 1]

\* One iteration of the loop that builds the transcode command.
TranscodeBody(acc, par) ==
    LET supported == StreamSupported(par) IN
    IF ~is_media_stream(par.codec_type) THEN acc
    ELSE IF par.codec_type = "VIDEO" THEN
        [acc EXCEPT !.maps = IF acc.had_video THEN @ ELSE Append(@, MapArg("v")),
                    !.had_video = TRUE,
                    !.v_opts = Append(@, CodecArg("v", acc.v_cnt,
                                   IF supported THEN "copy" ELSE "libx264")),
                    !.v_cnt = @ + 1]
    ELSE IF par.codec_type = "AUDIO" THEN
        [acc EXCEPT !.maps = IF acc.had_audio THEN @ ELSE Append(@, MapArg("a")),
                    !.had_audio = TRUE,
                    !.a_opts = Append(@, CodecArg("a", acc.a_cnt,
                                   IF supported THEN "copy" ELSE "aac")),
                    !.a_cnt = @ + 1]
    ELSE
        [acc EXCEPT !.maps = IF acc.had_sub THEN @ ELSE Append(@, MapArg("s")),
                    !.had_sub = TRUE,
                    !.s_opts = Append(@, CodecArg("s", acc.s_cnt,
                                   IF ~supported
                                   THEN (IF is_text_subtitle(par.codec_id) THEN "srt" ELSE "copy")
                                   ELSE "copy")),
                    !.s_cnt = @ + 1]

RECURSIVE TranscodeLoop(_, _, _)
TranscodeLoop(streams, i, acc) ==
    IF i > Len(streams) THEN acc
    ELSE TranscodeLoop(streams, i + 1, TranscodeBody(acc, streams[i]))

\* "ffmpeg -i <in>" + maps + v_opts + a_opts + s_opts + " <out>"
TranscodeCmd(filepath, streams) ==
    LET acc == TranscodeLoop(streams, 1, TranscodeInit) IN
    [input |-> shell_escape_single(filepath),
     args |-> acc.maps \o acc.v_opts \o acc.a_opts \o acc.s_opts,
     output |-> shell_escape_single(FixedBasename(filepath))]

\* ------------------------------------------------------------- check_file

\* What one call of check_file did: the exit path taken (kind), the Summary
\* it leaves, whether avformat_open_input succeeded (opened) and how many
\* times avformat_close_input ran on the handle (closed), whether a
\* classification loop ran (classified), the locals of the verbose path, and
\* everything printed (out_*).  A command that is not printed is <<>>, a
\* printed one is a one-element sequence.
Result(sum, filename) ==
    [kind |-> "ext_skip", summary |-> sum, filename |-> filename,
     opened |-> FALSE, closed |-> 0, classified |-> FALSE,
     container_ok |-> FALSE, has_unsupported |-> FALSE,
     all_supported |-> FALSE, has_video |-> FALSE, has_audio |-> FALSE,
     can_transcode |-> FALSE, has_unsupported_bitmap_subtitle |-> FALSE,
     out_error |-> "", out_brief |-> <<>>, out_report |-> <<>>,
     out_remux |-> <<>>, out_transcode |-> <<>>]

WithFlags(r, container_ok, fp) ==
    [r EXCEPT !.classified = TRUE,
              !.container_ok = container_ok,
              !.all_supported = fp.all_supported,
              !.has_video = fp.has_video,
              !.has_audio = fp.has_audio,
              !.can_transcode = fp.can_transcode,
              !.has_unsupported_bitmap_subtitle = fp.has_unsupported_bitmap_subtitle]

\* avformat_open_input failed: no handle exists, nothing to close.
OpenFailure(r, brief) ==
    [r EXCEPT !.kind = "open_fail",
              !.out_error = IF brief THEN "could not open" ELSE "av_strerror",
              !.summary.errors = @ + 1]

StreamInfoFailure_leak(r, brief) ==
    [r EXCEPT !.kind = "info_fail",
              !.opened = TRUE,
              !.out_error = IF brief THEN "could not read stream info" ELSE "av_strerror",
              !.summary.errors = @ + 1]

StreamInfoFailure_countsTotal(r, brief) ==
    [r EXCEPT !.kind = "info_fail",
              !.opened = TRUE,
              !.out_error = IF brief THEN "could not read stream info" ELSE "av_strerror",
              !.closed = @ + 1,
              !.summary.errors = @ + 1,
              !.summary.total = @ + 1]

\* avformat_find_stream_info failed on an opened handle.
StreamInfoFailure(r, brief) ==
    [r EXCEPT !.kind = "info_fail",
              !.opened = TRUE,
              !.out_error = IF brief THEN "could not read stream info" ELSE "av_strerror",
              !.closed = @ + 1,
              !.summary.errors = @ + 1]

\* Brief output: one line per file with an unsupported container or stream.
BriefMode(r, container, container_ok, streams) ==
    LET has_unsupported == BriefHasUnsupported(container_ok, streams)
        line == [container_tag |-> IF container_ok THEN <<>> ELSE <<container>>,
                 tags |-> BriefTags(streams, 1)]
    IN [r EXCEPT !.kind = "brief",
                 !.opened = TRUE,
                 !.classified = TRUE,
                 !.container_ok = container_ok,
                 !.has_unsupported = has_unsupported,
                 !.closed = @ + 1,
                 !.out_brief = IF has_unsupported THEN <<line>> ELSE <<>>,
                 !.summary.not_supported = IF has_unsupported THEN @ + 1 ELSE @,
                 !.summary.ok = IF has_unsupported THEN @ ELSE @ + 1,
                 !.summary.total = @ + 1]

SkipOk_noCount(r, container_ok, fp) ==
    [WithFlags(r, container_ok, fp) EXCEPT
        !.kind = "skip_ok",
        !.opened = TRUE,
        !.closed = @ + 1]

\* if (skip_ok && all_supported)
SkipOk(r, container_ok, fp) ==
    [WithFlags(r, container_ok, fp) EXCEPT
        !.kind = "skip_ok",
        !.opened = TRUE,
        !.closed = @ + 1,
        !.summary.ok = @ + 1,
        !.summary.total = @ + 1]

\* if (skip_unfixable && !all_supported && !can_transcode && has_unsupported_bitmap_subtitle)
SkipUnfixable(r, container_ok, fp) ==
    [WithFlags(r, container_ok, fp) EXCEPT
        !.kind = "skip_unfixable",
        !.opened = TRUE,
        !.closed = @ + 1,
        !.summary.not_supported = @ + 1,
        !.summary.total = @ + 1]

RemuxOffered_onlyWithoutTranscode(fp) ==
    ~fp.all_supported /\ (fp.has_video \/ fp.has_audio) /\ ~fp.can_transcode

RemuxOffered(fp) ==
    ~fp.all_supported /\ (fp.has_video \/ fp.has_audio)

TranscodeOffered(fp) ==
    ~fp.all_supported /\ (fp.has_video \/ fp.has_audio) /\ fp.can_transcode

\* The verbose report, the suggested commands and the final counting.
VerboseReport(r, filepath, container, container_ok, streams, fp) ==
    [WithFlags(r, container_ok, fp) EXCEPT
        !.kind = "verbose",
        !.opened = TRUE,
        !.out_report = << [container |-> container, container_ok |-> container_ok,
                           lines |-> ReportLines(streams, 1),
                           overall |-> fp.all_supported] >>,
        !.out_remux = IF RemuxOffered(fp) THEN <<RemuxCmd(filepath)>> ELSE <<>>,
        !.out_transcode = IF TranscodeOffered(fp)
                          THEN <<TranscodeCmd(filepath, streams)>> ELSE <<>>,
        !.closed = @ + 1,
        !.summary.ok = IF fp.all_supported THEN @ + 1 ELSE @,
        !.summary.not_supported = IF fp.all_supported THEN @ ELSE @ + 1,
        !.summary.total = @ + 1]

\* fmt_ctx->iformat->name, or "unknown" when iformat or its name is NULL.
Container(f) == IF f.has_iformat THEN f.iformat_name ELSE Name_unknown

\* check_file(filepath, show_full_path, summary) under the globals brief_mode,
\* skip_ok and skip_unfixable; f is what the prober finds at filepath.
check_file(f, show_full_path, sum, brief, sk_ok, sk_unfixable) ==
    LET filepath == f.path
        filename == IF show_full_path THEN filepath ELSE get_basename(filepath)
        r == Result(sum, filename)
    IN
    IF ~has_supported_extension(filepath) THEN r
    ELSE IF f.probe = "open_fail" THEN OpenFailure(r, brief)
    ELSE IF f.probe = "info_fail" THEN StreamInfoFailure(r, brief)
    ELSE
      LET container == Container(f)
          container_ok == is_container_supported(container)
      IN
      IF brief THEN BriefMode(r, container, container_ok, f.streams)
      ELSE
        LET fp == FirstPass(f.streams, 1, FirstPassInit(container_ok)) IN
        IF sk_ok /\ fp.all_supported THEN SkipOk(r, container_ok, fp)
        ELSE IF sk_unfixable /\ ~fp.all_supported /\ ~fp.can_transcode
                /\ fp.has_unsupported_bitmap_subtitle
             THEN SkipUnfixable(r, container_ok, fp)
        ELSE VerboseReport(r, filepath, container, container_ok, f.streams, fp)

\* ------------------------------------------------------------------ state

VARIABLES
    brief_mode,        \* --brief
    skip_ok,           \* --skip-ok
    skip_unfixable,    \* --skip-unfixable
    show_full_path,    \* --fullpath
    summary,           \* main's Summary, updated through check_file's pointer
    pc,                \* "scan": at readdir; "checked": check_file returned; "done"
    nentries,          \* directory entries visited so far
    open_handles,      \* AVFormatContext handles opened and not yet closed
    last,              \* the latest check_file call: its file and what it did
    summary_out,       \* the "--- Summary ---" block main printed, if any
    summary_noskip,    \* Summary of the same traversal run without the skip flags
    summary_nofail,    \* Summary of the same traversal with the failing files left out
    nfailed,           \* files of the traversal whose probe failed
    esc_input,         \* shell_escape_single on its own: the argument
    esc_output,        \*   and the returned string, once esc_done
    esc_done,
    vpar,              \* is_video_codec_supported on its own: the argument
    vres,              \*   and the result: "unset", "supported", "unsupported"
    brief              \* the brief-mode line buffer of check_file on its own

vars == <<brief_mode, skip_ok, skip_unfixable, show_full_path, summary, pc, nentries,
          open_handles, last, summary_out, summary_noskip, summary_nofail, nfailed,
          esc_input, esc_output, esc_done, vpar, vres, brief>>

flagVars == <<brief_mode, skip_ok, skip_unfixable, show_full_path>>
scanVars == <<summary, pc, nentries, open_handles, last, summary_out,
              summary_noskip, summary_nofail, nfailed>>
escVars == <<esc_input, esc_output, esc_done>>
videoVars == <<vpar, vres>>

NoFile == File(<<>>, "ok", FALSE, <<>>, <<>>)

NoCall ==
    [called |-> FALSE, file |-> NoFile, before |-> ZeroSummary,
     res |-> Result(ZeroSummary, <<>>), noskip |-> Result(ZeroSummary, <<>>)]

ScanInit ==
    /\ summary = ZeroSummary
    /\ pc = "scan"
    /\ nentries = 0
    /\ open_handles = 0
    /\ last = NoCall
    /\ summary_out = <<>>
    /\ summary_noskip = ZeroSummary
    /\ summary_nofail = ZeroSummary
    /\ nfailed = 0

EscIdle == esc_input = <<>> /\ esc_output = <<>> /\ esc_done = FALSE
VideoIdle == vpar = V_H264 /\ vres = "unset"

\* sizeof(line) - linelen, a size_t.  TLC's integers are narrower
\* than 64 bits, so a difference that wrapped modulo 2^64 is kept as
\* wrapped = TRUE with value = 2^64 minus the size.
SizeT(wrapped, value) == [wrapped |-> wrapped, value |-> value]

BriefIdle ==
    brief = [pc |-> "idle", container |-> <<>>, container_ok |-> TRUE, streams |-> <<>>,
             i |-> 0, linelen |-> 0, size |-> SizeT(FALSE, 0), stored |-> 0,
             outside |-> FALSE, has_unsupported |-> FALSE, printed |-> FALSE]

\* main after argument parsing: any combination of the four flags.
Init ==
    /\ brief_mode \in BOOLEAN
    /\ skip_ok \in BOOLEAN
    /\ skip_unfixable \in BOOLEAN
    /\ show_full_path \in BOOLEAN
    /\ ScanInit
    /\ EscIdle
    /\ VideoIdle
    /\ BriefIdle

IsFailure(r) == r.kind \in {"open_fail", "info_fail"}

\* scan_dir (or main, for a single file) reaches a regular file and calls check_file.
ScanCheckFile ==
    /\ pc = "scan"
    /\ nentries < MaxEntries
    /\ \E f \in Files :
       \E res \in {check_file(f, show_full_path, summary, brief_mode, skip_ok, skip_unfixable)} :
       \* the same call with both skip flags cleared (res itself when they are)
       \E noskip \in {IF ~skip_ok /\ ~skip_unfixable /\ summary_noskip = summary THEN res
                      ELSE check_file(f, show_full_path, summary_noskip, brief_mode, FALSE, FALSE)} :
       \* the same call on the Summary of the run without the failing files
       \E nofail \in {IF summary_nofail = summary THEN res
                      ELSE check_file(f, show_full_path, summary_nofail,
                                     brief_mode, skip_ok, skip_unfixable)} :
        /\ last' = [called |-> TRUE, file |-> f, before |-> summary,
                    res |-> res, noskip |-> noskip]
        /\ summary' = res.summary
        /\ open_handles' = open_handles + (IF res.opened THEN 1 ELSE 0) - res.closed
        /\ summary_noskip' = noskip.summary
        /\ summary_nofail' = IF IsFailure(res) THEN summary_nofail ELSE nofail.summary
        /\ nfailed' = IF IsFailure(res) THEN nfailed + 1 ELSE nfailed
    /\ nentries' = nentries + 1
    /\ pc' = "checked"
    /\ UNCHANGED <<summary_out, flagVars, escVars, videoVars, brief>>

\* check_file has returned; the loop goes back to readdir.
ScanNext ==
    /\ pc = "checked"
    /\ pc' = "scan"
    /\ last' = NoCall
    /\ UNCHANGED <<summary, nentries, open_handles, summary_out, summary_noskip,
                   summary_nofail, nfailed, flagVars, escVars, videoVars, brief>>

\* An entry that is not handed to check_file: "." or "..", a failing stat,
\* an excluded or unreadable directory, or neither a file nor a directory.
ScanSkip ==
    /\ pc = "scan"
    /\ nentries < MaxEntries
    /\ nentries' = nentries + 1
    /\ UNCHANGED <<summary, pc, open_handles, last, summary_out, summary_noskip,
                   summary_nofail, nfailed, flagVars, escVars, videoVars, brief>>

\* readdir returns NULL; main prints the summary unless in brief mode.
Finish ==
    /\ pc = "scan"
    /\ pc' = "done"
    /\ summary_out' = IF brief_mode THEN <<>> ELSE <<summary>>
    /\ UNCHANGED <<summary, nentries, open_handles, last, summary_noskip,
                   summary_nofail, nfailed, flagVars, escVars, videoVars, brief>>

Next ==
    \/ ScanCheckFile
    \/ ScanNext
    \/ ScanSkip
    \/ Finish

Spec == Init /\ [][Next]_vars

\* ------------------------------------- shell_escape_single on its own

EscAlphabet == {QUOTE, BACKSLASH, " ", "a"}

EscInputs == UNION {[1..n -> EscAlphabet] : n \in 0..MaxPathLen}

EscInit ==
    /\ esc_input \in EscInputs
    /\ esc_output = <<>>
    /\ esc_done = FALSE
    /\ brief_mode = FALSE /\ skip_ok = FALSE /\ skip_unfixable = FALSE
    /\ show_full_path = FALSE
    /\ ScanInit
    /\ VideoIdle
    /\ BriefIdle

Escape ==
    /\ ~esc_done
    /\ esc_output' = shell_escape_single(esc_input)
    /\ esc_done' = TRUE
    /\ UNCHANGED <<esc_input, flagVars, scanVars, videoVars, brief>>

EscNext == Escape

SpecEscape == EscInit /\ [][EscNext]_vars

\* ---------------------------------- is_video_codec_supported on its own

VideoCodecIds == {"H264", "HEVC", "MPEG2VIDEO", "VP9", "AV1", "MJPEG", "PNG",
                  "MPEG4", "VC1", "MSMPEG4V3", "WMV3"}
VideoTags == {"XVID", "xvid", "DIVX", "divx", "DX50", "MP4V", "mp4v", "FMP4", "fmp4",
              "XviD", "M4S2", "avc1", "NONE"}
VideoProfiles == {"MPEG4_ADVANCED_SIMPLE", "MPEG4_SIMPLE_STUDIO", "MPEG4_SIMPLE",
                  "MPEG4_MAIN", "UNKNOWN"}

VideoPars == {Stream("VIDEO", id, tag, pr) :
                 id \in VideoCodecIds, tag \in VideoTags, pr \in VideoProfiles}

VideoInit ==
    /\ vpar \in VideoPars
    /\ vres = "unset"
    /\ brief_mode = FALSE /\ skip_ok = FALSE /\ skip_unfixable = FALSE
    /\ show_full_path = FALSE
    /\ ScanInit
    /\ EscIdle
    /\ BriefIdle

ClassifyVideo ==
    /\ vres = "unset"
    /\ vres' = IF is_video_codec_supported(vpar) THEN "supported" ELSE "unsupported"
    /\ UNCHANGED <<vpar, flagVars, scanVars, escVars, brief>>

VideoNext == ClassifyVideo

SpecVideo == VideoInit /\ [][VideoNext]_vars

\* ------------------------------------------------------------------ claims

\* The file and the outcome of the latest check_file call.
F == last.file
R == last.res

\* The call went through the classification pass of the verbose path.
VerbosePath == last.called /\ R.kind \in {"skip_ok", "skip_unfixable", "verbose"}

IsMedia(par) == par.codec_type \in {"VIDEO", "AUDIO", "SUBTITLE"}

HasType(f, type) == \E i \in 1..Len(f.streams) : f.streams[i].codec_type = type

EveryStreamSupported(f) ==
    \A i \in 1..Len(f.streams) : IsMedia(f.streams[i]) => StreamSupported(f.streams[i])

\* Unsupported for a reason other than being a bitmap (PGS / DVD) subtitle.
NeedsTranscode(par) ==
    \/ par.codec_type = "VIDEO" /\ ~is_video_codec_supported(par)
    \/ par.codec_type = "AUDIO" /\ ~is_audio_codec_supported(par.codec_id)
    \/ /\ par.codec_type = "SUBTITLE"
       /\ ~is_subtitle_codec_supported(par.codec_id)
       /\ par.codec_id \notin {"HDMV_PGS_SUBTITLE", "DVD_SUBTITLE"}

UnsupportedBitmap(par) ==
    /\ par.codec_type = "SUBTITLE"
    /\ par.codec_id \in {"HDMV_PGS_SUBTITLE", "DVD_SUBTITLE"}
    /\ ~is_subtitle_codec_supported(par.codec_id)

CountedOk(before, after) ==
    after = [before EXCEPT !.ok = @ + 1, !.total = @ + 1]

CountedNotSupported(before, after) ==
    after = [before EXCEPT !.not_supported = @ + 1, !.total = @ + 1]

\* C1: on the verbose path all_supported is true iff the container is
\* supported and every video, audio and subtitle stream is supported (other
\* stream types are ignored); the file is counted in ok exactly when
\* all_supported is true and in not_supported otherwise.
C1_AllSupportedIffContainerAndStreams ==
    VerbosePath =>
        /\ R.all_supported <=>
              (is_container_supported(Container(F)) /\ EveryStreamSupported(F))
        /\ summary = R.summary
        /\ IF R.all_supported
           THEN CountedOk(last.before, summary)
           ELSE CountedNotSupported(last.before, summary)

\* avi container, H264 video and AAC audio: all supported, counted in ok,
\* no command offered.
C1_Witness ==
    /\ VerbosePath
    /\ R.kind = "verbose"
    /\ Container(F) = Name_avi
    /\ F.streams = <<V_H264, A_AAC>>
    /\ R.all_supported
    /\ summary.ok = 1
    /\ R.out_remux = <<>> /\ R.out_transcode = <<>>

\* C2: can_transcode is true iff at least one stream is unsupported for a
\* reason other than being a bitmap subtitle; a file whose only unsupported
\* streams are PGS or DVD subtitles ends with can_transcode false,
\* has_unsupported_bitmap_subtitle true and all_supported false.
C2_CanTranscodeIffNonBitmapUnsupported ==
    VerbosePath =>
        /\ R.can_transcode <=>
              (\E i \in 1..Len(F.streams) : NeedsTranscode(F.streams[i]))
        /\ ( /\ \E i \in 1..Len(F.streams) : UnsupportedBitmap(F.streams[i])
             /\ \A i \in 1..Len(F.streams) :
                   (IsMedia(F.streams[i]) /\ ~StreamSupported(F.streams[i]))
                       => UnsupportedBitmap(F.streams[i]) )
           => ( /\ ~R.can_transcode
                /\ R.has_unsupported_bitmap_subtitle
                /\ ~R.all_supported )

\* A supported video stream plus one PGS subtitle in a supported container.
C2_Witness ==
    /\ VerbosePath
    /\ F.streams = <<V_H264, S_PGS>>
    /\ Container(F) = Name_avi
    /\ ~R.can_transcode
    /\ R.has_unsupported_bitmap_subtitle
    /\ ~R.all_supported

\* C3: in a rendered verbose report a remux command is printed iff the file
\* is not fully supported and has a video or audio stream, whether or not a
\* transcode command is printed too; a transcode command is printed only when
\* can_transcode is true; a fully supported file gets neither.
C3_RemuxAndTranscodeOffers ==
    (last.called /\ R.kind = "verbose") =>
        /\ (R.out_remux # <<>>) <=>
              ( /\ ~(is_container_supported(Container(F)) /\ EveryStreamSupported(F))
                /\ (HasType(F, "VIDEO") \/ HasType(F, "AUDIO")) )
        /\ (R.out_transcode # <<>>) => R.can_transcode
        /\ (is_container_supported(Container(F)) /\ EveryStreamSupported(F))
              => (R.out_remux = <<>> /\ R.out_transcode = <<>>)

\* Both commands printed for one file.
C3_Witness ==
    /\ last.called
    /\ R.kind = "verbose"
    /\ R.out_remux # <<>>
    /\ R.out_transcode # <<>>
    /\ R.can_transcode

\* The arguments of the printed transcode command.
TArgs == R.out_transcode[1].args

TypeLetter(par) ==
    IF par.codec_type = "VIDEO" THEN "v"
    ELSE IF par.codec_type = "AUDIO" THEN "a"
    ELSE "s"

\* How many earlier streams of the list have the media type of stream i.
IndexInType(st, i) ==
    Cardinality({k \in 1..(i - 1) : st[k].codec_type = st[i].codec_type})

\* The positions of the "-c:<t>:<j>" arguments for stream i of st.
FlagsOf(args, st, i) ==
    {a \in 1..Len(args) :
        /\ args[a].opt = "-c"
        /\ args[a].t = TypeLetter(st[i])
        /\ args[a].idx = IndexInType(st, i)}

\* The codec the claim gives a stream.
ClaimedCodec(par, codec) ==
    /\ par.codec_type = "VIDEO" =>
          codec = (IF is_video_codec_supported(par) THEN "copy" ELSE "libx264")
    /\ par.codec_type = "AUDIO" =>
          codec = (IF is_audio_codec_supported(par.codec_id) THEN "copy" ELSE "aac")
    /\ par.codec_type = "SUBTITLE" =>
          /\ is_subtitle_codec_supported(par.codec_id) => codec = "copy"
          /\ (~is_subtitle_codec_supported(par.codec_id) /\ is_text_subtitle(par.codec_id))
                => codec = "srt"
          /\ (~is_subtitle_codec_supported(par.codec_id) /\ is_bitmap_subtitle(par.codec_id))
                => codec = "copy"

\* The type letters of the media streams in first-seen order, each once.
RECURSIVE FirstSeen(_, _, _)
FirstSeen(st, i, seen) ==
    IF i > Len(st) THEN seen
    ELSE IF IsMedia(st[i]) /\ ~(\E k \in 1..Len(seen) : seen[k] = TypeLetter(st[i]))
         THEN FirstSeen(st, i + 1, Append(seen, TypeLetter(st[i])))
         ELSE FirstSeen(st, i + 1, seen)

IsMapArg(a) == a.opt = "-map"
IsCodecArg(a) == a.opt = "-c"

C5_HandleClosedExactlyOnce ==
    /\ open_handles = 0
    /\ last.called =>
          /\ R.opened <=> (has_supported_extension(F.path) /\ F.probe # "open_fail")
          /\ R.opened => R.closed = 1
          /\ ~R.opened => R.closed = 0

\* A stream-info failure after an earlier file was analyzed: the handle that
\* was opened is closed again.
C5_Witness ==
    /\ last.called
    /\ R.kind = "info_fail"
    /\ R.opened /\ R.closed = 1
    /\ summary.total >= 1
    /\ open_handles = 0

NothingPrintedButError(r) ==
    /\ r.out_brief = <<>> /\ r.out_report = <<>>
    /\ r.out_remux = <<>> /\ r.out_transcode = <<>>

\* C6: a probe failure increments errors by exactly 1, leaves total, ok and
\* not_supported unchanged, classifies nothing and prints no command; the
\* traversal goes on, and the counters of the later files are those of the
\* same traversal without the failing files.
C6_ProbeFailureCountsOneError ==
    /\ (last.called /\ IsFailure(R)) =>
          /\ summary = [last.before EXCEPT !.errors = @ + 1]
          /\ ~R.classified
          /\ NothingPrintedButError(R)
          /\ R.out_error # ""
          /\ pc = "checked"
    /\ summary.total = summary_nofail.total
    /\ summary.ok = summary_nofail.ok
    /\ summary.not_supported = summary_nofail.not_supported
    /\ summary_nofail.errors = 0
    /\ summary.errors = nfailed

\* A file analyzed and counted after an earlier file's probe failed.
C6_Witness ==
    /\ last.called
    /\ R.kind = "verbose"
    /\ nfailed = 1
    /\ summary.errors = 1
    /\ summary.total = 1

NoOutput(r) ==
    /\ r.out_error = ""
    /\ NothingPrintedButError(r)

Output(r) == <<r.out_error, r.out_brief, r.out_report, r.out_remux, r.out_transcode>>

Probed(f) == has_supported_extension(f.path) /\ f.probe = "ok"

FullySupported(f) == is_container_supported(Container(f)) /\ EveryStreamSupported(f)

\* C7: in verbose mode --skip-ok makes a fully supported file print nothing
\* and count in ok and total; --skip-unfixable makes a file that is not fully
\* supported, cannot be transcoded and has an unsupported bitmap subtitle
\* print nothing and count in not_supported and total; the Summary counters
\* equal those of the same run without the skip flags; in brief mode the
\* flags change neither output nor counters.
C7_SkipFlagsSuppressOutputNotCounting ==
    /\ (last.called /\ Probed(F) /\ ~brief_mode /\ skip_ok /\ FullySupported(F)) =>
          /\ NoOutput(R)
          /\ CountedOk(last.before, summary)
    /\ ( /\ last.called /\ Probed(F) /\ ~brief_mode /\ skip_unfixable
         /\ ~FullySupported(F)
         /\ ~(\E i \in 1..Len(F.streams) : NeedsTranscode(F.streams[i]))
         /\ \E i \in 1..Len(F.streams) : UnsupportedBitmap(F.streams[i]) ) =>
          /\ NoOutput(R)
          /\ CountedNotSupported(last.before, summary)
    /\ summary = summary_noskip
    /\ (last.called /\ brief_mode) =>
          /\ Output(R) = Output(last.noskip)
          /\ R.summary = last.noskip.summary

\* A second file skipped as unfixable whose report the run without the flags prints.
C7_Witness ==
    /\ last.called
    /\ ~brief_mode /\ skip_unfixable
    /\ R.kind = "skip_unfixable"
    /\ NoOutput(R)
    /\ last.noskip.kind = "verbose"
    /\ last.noskip.out_remux # <<>>
    /\ summary.total = 2
    /\ summary = summary_noskip

\* The POSIX-shell reading of a token: inside single quotes every character
\* is literal up to the next quote; outside, a backslash makes the next
\* character literal, a quote opens a quoted segment, a space ends the word;
\* adjacent segments join into one word.  ok is FALSE when the text ends
\* inside quotes or on a lone backslash.
RECURSIVE ShellParse(_, _, _, _, _, _)
ShellParse(s, i, quoted, cur, started, words) ==
    IF i > Len(s)
    THEN [ok |-> ~quoted, words |-> IF started THEN Append(words, cur) ELSE words]
    ELSE IF quoted
         THEN IF s[i] = QUOTE
              THEN ShellParse(s, i + 1, FALSE, cur, TRUE, words)
              ELSE ShellParse(s, i + 1, TRUE, Append(cur, s[i]), TRUE, words)
    ELSE IF s[i] = QUOTE
         THEN ShellParse(s, i + 1, TRUE, cur, TRUE, words)
    ELSE IF s[i] = BACKSLASH
         THEN IF i = Len(s)
              THEN [ok |-> FALSE, words |-> words]
              ELSE ShellParse(s, i + 2, FALSE, Append(cur, s[i + 1]), TRUE, words)
    ELSE IF s[i] = " "
         THEN ShellParse(s, i + 1, FALSE, <<>>, FALSE,
                         IF started THEN Append(words, cur) ELSE words)
    ELSE ShellParse(s, i + 1, FALSE, Append(cur, s[i]), TRUE, words)

ShellWords(s) == ShellParse(s, 1, FALSE, <<>>, FALSE, <<>>)

\* C8: the token shell_escape_single returns starts and ends with a single
\* quote and, read by the shell's single-quote rule, is exactly one word equal
\* to the input, for every input including the empty string and strings of
\* quotes only.
C8_ShellEscapeRoundTrip ==
    esc_done =>
        /\ Len(esc_output) >= 2
        /\ esc_output[1] = QUOTE
        /\ esc_output[Len(esc_output)] = QUOTE
        /\ ShellWords(esc_output) = [ok |-> TRUE, words |-> <<esc_input>>]

\* An input made only of single quotes, escaped and read back.
C8_Witness ==
    /\ esc_done
    /\ esc_input = <<QUOTE, QUOTE>>
    /\ esc_output = <<QUOTE, QUOTE, BACKSLASH, QUOTE, QUOTE,
                      QUOTE, BACKSLASH, QUOTE, QUOTE, QUOTE>>
    /\ ShellWords(esc_output).words = <<esc_input>>

ExcludedTags == {"XVID", "xvid", "DIVX", "divx", "DX50", "MP4V", "mp4v", "FMP4", "fmp4"}

\* C9: is_video_codec_supported is true iff the codec id is one of H264, HEVC,
\* MPEG2, VP9, AV1, MJPEG, PNG, or it is MPEG4 with a tag outside the nine
\* excluded fourCCs and a profile that is neither advanced-simple nor
\* simple-studio.
C9_VideoSupportDecisionTable ==
    vres # "unset" =>
        ( (vres = "supported") <=>
            \/ vpar.codec_id \in {"H264", "HEVC", "MPEG2VIDEO", "VP9", "AV1", "MJPEG", "PNG"}
            \/ /\ vpar.codec_id = "MPEG4"
               /\ vpar.codec_tag \notin ExcludedTags
               /\ vpar.profile \notin {"MPEG4_ADVANCED_SIMPLE", "MPEG4_SIMPLE_STUDIO"} )

\* MPEG4 with an excluded tag and an acceptable profile is unsupported.
C9_Witness ==
    /\ vres = "unsupported"
    /\ vpar.codec_id = "MPEG4"
    /\ vpar.codec_tag = "divx"
    /\ vpar.profile = "MPEG4_SIMPLE"

\* C10: a printed transcode command re-encodes at least one stream: every
\* stream that made can_transcode true (unsupported video, unsupported audio,
\* unsupported non-bitmap subtitle) gets libx264, aac or srt, so no printed
\* transcode command consists of copy selections only.
C10_TranscodeCommandReencodes ==
    (last.called /\ R.out_transcode # <<>>) =>
        /\ \E a \in 1..Len(TArgs) : TArgs[a].opt = "-c" /\ TArgs[a].codec # "copy"
        /\ \A i \in 1..Len(F.streams) :
              NeedsTranscode(F.streams[i]) =>
                 \A a \in FlagsOf(TArgs, F.streams, i) :
                    TArgs[a].codec \in {"libx264", "aac", "srt"}

\* ----------------------------------- the brief-mode line buffer on its own

\* Longest stream list of a file whose brief line is built byte by byte.
MaxBriefStreams == 3
\* Length of a long "language" metadata value; "und" and "eng" have 3.
LongLang == 8200

\* char line[8192]
LINE_SIZE == 8192

COLOR_GREEN == <<"ESC", "[", "3", "2", "m">>
COLOR_RED   == <<"ESC", "[", "3", "1", "m">>
COLOR_RESET == <<"ESC", "[", "0", "m">>

Str_container_open == <<"[","c","o","n","t","a","i","n","e","r",":">>

\* strlen(avcodec_get_name(codec_id))
CodecNameLen(id) ==
    IF id = "H264" THEN Len(<<"h","2","6","4">>)
    ELSE IF id = "DTS" THEN Len(<<"d","t","s">>)
    ELSE IF id = "HDMV_PGS_SUBTITLE"
         THEN Len(<<"h","d","m","v","_","p","g","s","_","s","u","b","t","i","t","l","e">>)
    ELSE Len(<<"b","i","n","_","d","a","t","a">>)

TypeNameLen(par) ==
    IF par.codec_type = "VIDEO" THEN Len(<<"v","i","d","e","o">>)
    ELSE IF par.codec_type = "AUDIO" THEN Len(<<"a","u","d","i","o">>)
    ELSE Len(<<"s","u","b","t","i","t","l","e">>)

\* The number of characters %d prints for a stream index.
Digits(n) == IF n < 10 THEN 1 ELSE IF n < 100 THEN 2 ELSE 3

\* What snprintf returns for COLOR_RED "[container:%s]" COLOR_RESET.
ContainerTagLen(container) ==
    Len(COLOR_RED) + Len(Str_container_open) + Len(container) + 1 + Len(COLOR_RESET)

\* What snprintf returns for "%s[%d:%s:%s:%s]%s": the whole tag, stored or not.
StreamTagLen(i, st) ==
    Len(IF StreamSupported(st.par) THEN COLOR_GREEN ELSE COLOR_RED)
    + 1 + Digits(i) + 1 + TypeNameLen(st.par) + 1 + CodecNameLen(st.par.codec_id)
    + 1 + st.lang_len + 1 + Len(COLOR_RESET)

\* sizeof(line) - linelen in size_t arithmetic.
SizeArg(linelen) ==
    IF linelen <= LINE_SIZE
    THEN SizeT(FALSE, LINE_SIZE - linelen)
    ELSE SizeT(TRUE, linelen - LINE_SIZE)

\* strlen(line) after snprintf(line + linelen, size, ...) of a text of n
\* characters, for linelen <= sizeof(line): at most size - 1 are stored.
StoredAfter(stored, linelen, n) ==
    IF LINE_SIZE - linelen = 0 THEN stored
    ELSE linelen + Min(n, LINE_SIZE - linelen - 1)

BriefStreams ==
    {[par |-> p, lang_len |-> l] : p \in {V_H264, A_DTS, S_PGS, D_DATA}, l \in {3, LongLang}}

BriefStreamLists == UNION {[1..n -> BriefStreams] : n \in 0..MaxBriefStreams}

\* check_file has opened the file and entered if (brief_mode).
BriefInit ==
    /\ \E c \in {Name_avi, Name_flv}, sl \in BriefStreamLists :
          brief = [pc |-> "container", container |-> c,
                   container_ok |-> is_container_supported(c), streams |-> sl,
                   i |-> 0, linelen |-> 0, size |-> SizeT(FALSE, LINE_SIZE), stored |-> 0,
                   outside |-> FALSE, has_unsupported |-> FALSE, printed |-> FALSE]
    /\ brief_mode = TRUE /\ skip_ok = FALSE /\ skip_unfixable = FALSE
    /\ show_full_path = FALSE
    /\ ScanInit
    /\ EscIdle
    /\ VideoIdle

BriefUnchanged == UNCHANGED <<flagVars, scanVars, escVars, videoVars>>

\* if (!container_ok) { linelen += snprintf(...); has_unsupported = 1; }
BriefContainer ==
    /\ brief.pc = "container"
    /\ brief' =
         IF brief.container_ok THEN [brief EXCEPT !.pc = "loop"]
         ELSE [brief EXCEPT
                 !.pc = "loop",
                 !.size = SizeArg(brief.linelen),
                 !.stored = StoredAfter(@, brief.linelen, ContainerTagLen(brief.container)),
                 !.linelen = @ + ContainerTagLen(brief.container),
                 !.has_unsupported = TRUE]
    /\ BriefUnchanged

\* if (!is_media_stream(par->codec_type)) continue;
BriefSkipStream ==
    /\ brief.pc = "loop"
    /\ brief.i < Len(brief.streams)
    /\ ~is_media_stream(brief.streams[brief.i + 1].par.codec_type)
    /\ brief' = [brief EXCEPT !.i = @ + 1]
    /\ BriefUnchanged

\* One loop iteration for a media stream while line + linelen is within the
\* array: snprintf stores what fits and returns the full length of the tag.
BriefAppendTag ==
    /\ brief.pc = "loop"
    /\ brief.i < Len(brief.streams)
    /\ is_media_stream(brief.streams[brief.i + 1].par.codec_type)
    /\ brief.linelen <= LINE_SIZE
    /\ LET st == brief.streams[brief.i + 1]
           n == StreamTagLen(brief.i, st)
       IN brief' = [brief EXCEPT
                      !.i = @ + 1,
                      !.size = SizeArg(brief.linelen),
                      !.stored = StoredAfter(@, brief.linelen, n),
                      !.linelen = @ + n,
                      !.has_unsupported = @ \/ ~StreamSupported(st.par)]
    /\ BriefUnchanged

PastEnd ==
    /\ brief.pc = "loop"
    /\ brief.i < Len(brief.streams)
    /\ is_media_stream(brief.streams[brief.i + 1].par.codec_type)
    /\ brief.linelen > LINE_SIZE

\* The same iteration once linelen has passed sizeof(line): line + linelen
\* points outside the array and the size argument has wrapped, which is
\* undefined behaviour.  The C library may format the tag where the pointer
\* points (outside line) ...
BriefAppendPastEndWrites ==
    /\ PastEnd
    /\ LET st == brief.streams[brief.i + 1] IN
       brief' = [brief EXCEPT
                   !.i = @ + 1,
                   !.size = SizeArg(brief.linelen),
                   !.outside = TRUE,
                   !.linelen = @ + StreamTagLen(brief.i, st),
                   !.has_unsupported = @ \/ ~StreamSupported(st.par)]
    /\ BriefUnchanged

\* ... or reject a size above INT_MAX, returning -1 and storing nothing ...
BriefAppendPastEndRejected ==
    /\ PastEnd
    /\ LET st == brief.streams[brief.i + 1] IN
       brief' = [brief EXCEPT
                   !.i = @ + 1,
                   !.size = SizeArg(brief.linelen),
                   !.linelen = @ - 1,
                   !.has_unsupported = @ \/ ~StreamSupported(st.par)]
    /\ BriefUnchanged

\* ... or the process may be stopped at the invalid access.
BriefAppendPastEndCrashes ==
    /\ PastEnd
    /\ brief' = [brief EXCEPT !.pc = "crashed", !.size = SizeArg(brief.linelen)]
    /\ BriefUnchanged

\* The loop ends: the handle is closed and the line printed if has_unsupported.
BriefFinish ==
    /\ brief.pc = "loop"
    /\ brief.i = Len(brief.streams)
    /\ brief' = [brief EXCEPT !.pc = "done", !.printed = brief.has_unsupported]
    /\ BriefUnchanged

BriefNext ==
    \/ BriefContainer
    \/ BriefSkipStream
    \/ BriefAppendTag
    \/ BriefAppendPastEndWrites
    \/ BriefAppendPastEndRejected
    \/ BriefAppendPastEndCrashes
    \/ BriefFinish

SpecBrief == BriefInit /\ [][BriefNext]_vars

\* C11: while the brief line is built, linelen never exceeds the size of the
\* line buffer, the size argument sizeof(line) - linelen never wraps, and
\* nothing is written outside the buffer: the line is truncated instead.
C11_BriefLineStaysInBuffer ==
    /\ brief.linelen <= LINE_SIZE
    /\ ~brief.size.wrapped
    /\ ~brief.outside
    /\ brief.stored < LINE_SIZE

====
